---- MODULE Spec2Model ----
(***************************************************************************)
(* FinTrack offline-first synchronisation: the local store (transactions,  *)
(* goals, sync_queue), the record repository and the sync engine of        *)
(* contexts/DatabaseContext.tsx, with the Remote Service as environment.   *)
(*                                                                         *)
(* Granularity.  Every handler is an async function; an action of this     *)
(* model is the code between two awaits, and a statement handed to the     *)
(* store (or a request handed to the network) takes effect in the action   *)
(* that issues it.  The position of a repository call is `call`, the       *)
(* position of every sync run is `runs[r]`.  Crash ends all calls in        *)
(* flight and keeps what the store and the Remote Service hold.            *)
(***************************************************************************)
EXTENDS Integers, Sequences, FiniteSets, TLC

\* ---------------------------------------------------------------- bounds
MaxRows == 2        \* rows ever inserted into one table (AUTOINCREMENT ids)
MaxQueue == 2       \* sync_queue entries ever inserted
MaxRuns == 2        \* syncData calls that may be in flight together

MaxTx == MaxRows        \* transaction rows
MaxGoal == MaxRows      \* goal rows
MaxRemote == MaxRows    \* records the Remote Service ever creates, per table

Null == 0           \* SQL NULL / JS null; ids start at 1, so 0 is falsy as in JS

Users == {1, 2}
Months == {3, 4}
Years == {2024}
RunIds == 1..MaxRuns

VARIABLES
  transactions,   \* table transactions: local id -> row
  goals,          \* table goals: local id -> row
  sync_queue,     \* table sync_queue in ORDER BY created_at order
  seq,            \* sqlite_sequence: last AUTOINCREMENT id per table
  user,           \* AuthContext user id, Null when logged out
  token,          \* AuthContext: a bearer token is held
  isOnline,       \* DatabaseProvider state isOnline
  pendingSync,    \* DatabaseProvider state pendingSync
  call,           \* the repository call in flight
  runs,           \* the syncData calls in flight
  remoteTx,       \* Remote Service: transactions, server id -> record
  remoteGoals,    \* Remote Service: goals, server id -> record
  remoteSeq,      \* Remote Service: last id handed out per table
  lastResult,     \* what the step just taken returned or threw to its caller
  returned        \* the value the step just taken returned, Null when none

vars == <<transactions, goals, sync_queue, seq, user, token, isOnline,
          pendingSync, call, runs, remoteTx, remoteGoals, remoteSeq,
          lastResult, returned>>

local == <<transactions, goals, sync_queue, seq>>
remote == <<remoteTx, remoteGoals, remoteSeq>>
auth == <<user, token>>

\* ---------------------------------------------------------------- helpers
NoCall == [op |-> "none", step |-> 0, id |-> 0, data |-> Null,
           user |-> Null, server_id |-> Null]
NoResult == [op |-> "none", status |-> "none"]

\* The rows of one table after DELETE ... WHERE id IN ids
Without(table, ids) == [i \in DOMAIN table \ ids |-> table[i]]

\* sync_queue after DELETE FROM sync_queue WHERE id = qid
QueueWithout(q, qid) == SelectSeq(q, LAMBDA e : e.id # qid)

\* INSERT INTO sync_queue (table_name, record_id, operation, data)
QueueEntry(qid, table_name, record_id, operation, data) ==
  [id |-> qid, table_name |-> table_name, record_id |-> record_id,
   operation |-> operation, data |-> data]

\* UNIQUE(server_id, user_id); SQL NULLs never collide
ServerIdUnique(table) ==
  \A i, j \in DOMAIN table :
    (i # j /\ table[i].server_id # Null /\ table[i].server_id = table[j].server_id)
      => table[i].user_id # table[j].user_id

\* UNIQUE(user_id, target_month, target_year) of table goals
GoalMonthUnique(table) ==
  \A i, j \in DOMAIN table :
    (i # j /\ table[i].user_id = table[j].user_id
           /\ table[i].target_month = table[j].target_month)
      => table[i].target_year # table[j].target_year

TransactionsOk(table) == ServerIdUnique(table)

\* table goals as it would be without UNIQUE(user_id, target_month, target_year)
GoalsOkNoMonth(table) == ServerIdUnique(table)

GoalsOk(table) == ServerIdUnique(table) /\ GoalMonthUnique(table)

Idle == call.op = "none"

\* the step returns nothing and throws nothing to a caller
Quiet == lastResult' = NoResult /\ returned' = Null

Return(op, status, id) ==
  /\ call' = NoCall
  /\ lastResult' = [op |-> op, status |-> status]
  /\ returned' = IF status = "ok" /\ op \in {"addTransaction", "addGoal"}
                 THEN id ELSE Null

\* ---------------------------------------------------------------- Init
NoRun == [pc |-> "idle", user |-> Null, queue |-> <<>>, op |-> "none",
          resp |-> "none", sid |-> Null, sent |-> {}, applied |-> {},
          confirmed |-> {},
          txs |-> <<>>, gls |-> <<>>, txIds |-> {}, goalIds |-> {},
          wrote |-> FALSE, addr |-> Null]

Init ==
  /\ transactions = <<>>
  /\ goals = <<>>
  /\ sync_queue = <<>>
  /\ seq = [transactions |-> 0, goals |-> 0, sync_queue |-> 0]
  /\ user = Null
  /\ token = FALSE
  /\ isOnline = FALSE
  /\ pendingSync = FALSE
  /\ call = NoCall
  /\ runs = [r \in RunIds |-> NoRun]
  /\ remoteTx = <<>>
  /\ remoteGoals = <<>>
  /\ remoteSeq = [transactions |-> 0, goals |-> 0]
  /\ lastResult = NoResult
  /\ returned = Null

\* ---------------------------------------------------------------- environment
\* AuthContext.login / loadStoredAuth: user and token are set together
login(u) ==
  /\ user = Null
  /\ user' = u
  /\ token' = TRUE
  /\ UNCHANGED <<local, remote, isOnline, pendingSync, call, runs>> /\ Quiet

\* AuthContext.logout
logout ==
  /\ user # Null
  /\ user' = Null
  /\ token' = FALSE
  /\ UNCHANGED <<local, remote, isOnline, pendingSync, call, runs>> /\ Quiet

\* NetInfo listener: setIsOnline(state.isConnected ?? false)
setupNetworkListener(b) ==
  /\ isOnline # b
  /\ isOnline' = b
  /\ UNCHANGED <<local, remote, auth, pendingSync, call, runs>> /\ Quiet

\* The process dies: every call in flight is gone, React state is rebuilt,
\* the store file and the Remote Service keep what was written.
Crash ==
  /\ \/ call # NoCall
     \/ \E r \in RunIds : runs[r].pc # "idle"
  /\ call' = NoCall
  /\ runs' = [r \in RunIds |-> NoRun]
  /\ pendingSync' = FALSE
  /\ UNCHANGED <<local, remote, auth, isOnline>> /\ Quiet

\* ---------------------------------------------------------------- transactions
\* Room left by the bounds for a call that inserts a row and queues an intent
RoomTx == seq.transactions < MaxTx
RoomGoal == seq.goals < MaxGoal
RoomQueue == seq.sync_queue < MaxQueue

StartCall(op, id, data, sid) ==
  call' = [op |-> op, step |-> 2, id |-> id, data |-> data, user |-> user,
           server_id |-> sid]

\* INSERT INTO sync_queue (table_name, record_id, operation, data) VALUES (...)
InsertQueue(table_name, record_id, operation, data) ==
  LET qid == seq.sync_queue + 1 IN
  /\ sync_queue' = Append(sync_queue,
       QueueEntry(qid, table_name, record_id, operation, data))
  /\ seq' = [seq EXCEPT !.sync_queue = qid]

\* addTransaction, up to and including the INSERT INTO transactions
addTransaction(data) ==
  /\ Idle
  /\ IF user = Null
     THEN /\ Return("addTransaction", "error", 0)
          /\ UNCHANGED local
     ELSE /\ RoomTx /\ RoomQueue
          /\ LET id == seq.transactions + 1 IN
             /\ transactions' = transactions @@
                  (id :> [amount |-> data.amount, type |-> data.type,
                          user_id |-> user, sync_status |-> "pending",
                          server_id |-> Null])
             /\ seq' = [seq EXCEPT !.transactions = id]
             /\ StartCall("addTransaction", id, data, Null)
          /\ UNCHANGED <<goals, sync_queue>> /\ Quiet
  /\ UNCHANGED <<remote, auth, isOnline, pendingSync, runs>>

\* addTransaction, the INSERT INTO sync_queue and the return
addTransactionQueue ==
  /\ call.op = "addTransaction"
  /\ InsertQueue("transactions", call.id, "create", call.data)
  /\ Return("addTransaction", "ok", call.id)
  /\ UNCHANGED <<transactions, goals, remote, auth, isOnline, pendingSync, runs>>

\* updateTransaction, up to and including the UPDATE transactions
updateTransaction(id, data) ==
  /\ Idle
  /\ IF user = Null
     THEN /\ Return("updateTransaction", "error", id)
          /\ UNCHANGED local
     ELSE /\ RoomQueue
          /\ transactions' =
               [i \in DOMAIN transactions |->
                  IF i = id /\ transactions[i].user_id = user
                  THEN [transactions[i] EXCEPT !.amount = data.amount,
                                               !.type = data.type,
                                               !.sync_status = "pending"]
                  ELSE transactions[i]]
          /\ StartCall("updateTransaction", id, data, Null)
          /\ UNCHANGED <<goals, sync_queue, seq>> /\ Quiet
  /\ UNCHANGED <<remote, auth, isOnline, pendingSync, runs>>

\* updateTransaction, the INSERT INTO sync_queue and the return
updateTransactionQueue ==
  /\ call.op = "updateTransaction"
  /\ InsertQueue("transactions", call.id, "update", call.data)
  /\ Return("updateTransaction", "ok", call.id)
  /\ UNCHANGED <<transactions, goals, remote, auth, isOnline, pendingSync, runs>>

\* deleteTransaction as it would be with `WHERE id = ?` alone in its SELECT
deleteTransactionAnyOwner(id) ==
  /\ Idle
  /\ IF user = Null
     THEN Return("deleteTransaction", "error", id)
     ELSE IF id \in DOMAIN transactions
     THEN /\ (transactions[id].server_id # Null => RoomQueue)
          /\ StartCall("deleteTransaction", id, Null, transactions[id].server_id)
          /\ Quiet
     ELSE Return("deleteTransaction", "NotFound", id)
  /\ UNCHANGED <<local, remote, auth, isOnline, pendingSync, runs>>

\* deleteTransaction, up to and including the SELECT server_id
deleteTransaction(id) ==
  /\ Idle
  /\ IF user = Null
     THEN Return("deleteTransaction", "error", id)
     ELSE IF id \in DOMAIN transactions /\ transactions[id].user_id = user
     THEN /\ (transactions[id].server_id # Null => RoomQueue)
          /\ StartCall("deleteTransaction", id, Null, transactions[id].server_id)
          /\ Quiet
     ELSE Return("deleteTransaction", "NotFound", id)
  /\ UNCHANGED <<local, remote, auth, isOnline, pendingSync, runs>>

\* deleteTransaction, the DELETE FROM transactions WHERE id = ? AND user_id = ?
deleteTransactionRow ==
  /\ call.op = "deleteTransaction" /\ call.step = 2
  /\ transactions' =
       Without(transactions,
               {i \in DOMAIN transactions :
                  i = call.id /\ transactions[i].user_id = call.user})
  /\ call' = [call EXCEPT !.step = 3]
  /\ UNCHANGED <<goals, sync_queue, seq, remote, auth, isOnline, pendingSync,
                 runs>> /\ Quiet

\* deleteTransaction as it would be without `if (existing.server_id)`
deleteTransactionQueueAlways ==
  /\ call.op = "deleteTransaction" /\ call.step = 3
  /\ InsertQueue("transactions", call.id, "delete", [server_id |-> call.server_id])
  /\ Return("deleteTransaction", "ok", call.id)
  /\ UNCHANGED <<transactions, goals, remote, auth, isOnline, pendingSync, runs>>

\* deleteTransaction, `if (existing.server_id)` INSERT INTO sync_queue; return
deleteTransactionQueue ==
  /\ call.op = "deleteTransaction" /\ call.step = 3
  /\ IF call.server_id # Null
     THEN InsertQueue("transactions", call.id, "delete",
                      [server_id |-> call.server_id])
     ELSE UNCHANGED <<sync_queue, seq>>
  /\ Return("deleteTransaction", "ok", call.id)
  /\ UNCHANGED <<transactions, goals, remote, auth, isOnline, pendingSync, runs>>

\* ---------------------------------------------------------------- goals
GoalRow(data, u, status, sid) ==
  [target_amount |-> data.target_amount, target_month |-> data.target_month,
   target_year |-> data.target_year, user_id |-> u, sync_status |-> status,
   server_id |-> sid]

\* addGoal, up to and including the INSERT INTO goals
addGoal(data) ==
  /\ Idle
  /\ IF user = Null
     THEN /\ Return("addGoal", "error", 0)
          /\ UNCHANGED local
     ELSE LET id == seq.goals + 1
              inserted == goals @@ (id :> GoalRow(data, user, "pending", Null))
          IN IF GoalsOk(inserted)
                THEN /\ RoomGoal /\ RoomQueue
                     /\ goals' = inserted
                     /\ seq' = [seq EXCEPT !.goals = id]
                     /\ StartCall("addGoal", id, data, Null)
                     /\ UNCHANGED <<transactions, sync_queue>> /\ Quiet
                ELSE /\ Return("addGoal", "error", 0)
                     /\ UNCHANGED local
  /\ UNCHANGED <<remote, auth, isOnline, pendingSync, runs>>

\* addGoal, the INSERT INTO sync_queue and the return
addGoalQueue ==
  /\ call.op = "addGoal"
  /\ InsertQueue("goals", call.id, "create", call.data)
  /\ Return("addGoal", "ok", call.id)
  /\ UNCHANGED <<transactions, goals, remote, auth, isOnline, pendingSync, runs>>

\* updateGoal, up to and including the UPDATE goals
updateGoal(id, data) ==
  /\ Idle
  /\ IF user = Null
     THEN /\ Return("updateGoal", "error", id)
          /\ UNCHANGED local
     ELSE /\ RoomQueue
          /\ LET updated ==
                   [i \in DOMAIN goals |->
                      IF i = id /\ goals[i].user_id = user
                      THEN GoalRow(data, user, "pending", goals[i].server_id)
                      ELSE goals[i]]
             IN IF GoalsOk(updated)
                THEN /\ goals' = updated
                     /\ StartCall("updateGoal", id, data, Null)
                     /\ UNCHANGED <<transactions, sync_queue, seq>> /\ Quiet
                ELSE /\ Return("updateGoal", "error", id)
                     /\ UNCHANGED local
  /\ UNCHANGED <<remote, auth, isOnline, pendingSync, runs>>

\* updateGoal, the INSERT INTO sync_queue and the return
updateGoalQueue ==
  /\ call.op = "updateGoal"
  /\ InsertQueue("goals", call.id, "update", call.data)
  /\ Return("updateGoal", "ok", call.id)
  /\ UNCHANGED <<transactions, goals, remote, auth, isOnline, pendingSync, runs>>

\* deleteGoal, up to and including the SELECT server_id
deleteGoal(id) ==
  /\ Idle
  /\ IF user = Null
     THEN Return("deleteGoal", "error", id)
     ELSE IF id \in DOMAIN goals /\ goals[id].user_id = user
     THEN /\ (goals[id].server_id # Null => RoomQueue)
          /\ StartCall("deleteGoal", id, Null, goals[id].server_id)
          /\ Quiet
     ELSE Return("deleteGoal", "NotFound", id)
  /\ UNCHANGED <<local, remote, auth, isOnline, pendingSync, runs>>

\* deleteGoal, the DELETE FROM goals WHERE id = ? AND user_id = ?
deleteGoalRow ==
  /\ call.op = "deleteGoal" /\ call.step = 2
  /\ goals' = Without(goals, {i \in DOMAIN goals :
                                 i = call.id /\ goals[i].user_id = call.user})
  /\ call' = [call EXCEPT !.step = 3]
  /\ UNCHANGED <<transactions, sync_queue, seq, remote, auth, isOnline,
                 pendingSync, runs>> /\ Quiet

\* deleteGoal as it would be without the INSERT INTO sync_queue
deleteGoalQueueNever ==
  /\ call.op = "deleteGoal" /\ call.step = 3
  /\ UNCHANGED <<sync_queue, seq>>
  /\ Return("deleteGoal", "ok", call.id)
  /\ UNCHANGED <<transactions, goals, remote, auth, isOnline, pendingSync, runs>>

\* deleteGoal, `if (existing.server_id)` INSERT INTO sync_queue; return
deleteGoalQueue ==
  /\ call.op = "deleteGoal" /\ call.step = 3
  /\ IF call.server_id # Null
     THEN InsertQueue("goals", call.id, "delete", [server_id |-> call.server_id])
     ELSE UNCHANGED <<sync_queue, seq>>
  /\ Return("deleteGoal", "ok", call.id)
  /\ UNCHANGED <<transactions, goals, remote, auth, isOnline, pendingSync, runs>>

\* ---------------------------------------------------------------- clearLocalData
\* clearLocalData: DELETE FROM transactions; DELETE FROM goals; DELETE FROM
\* sync_queue in one execAsync; sqlite_sequence keeps the last ids
clearLocalData ==
  /\ transactions' = <<>>
  /\ goals' = <<>>
  /\ sync_queue' = <<>>
  /\ lastResult' = [op |-> "clearLocalData", status |-> "ok"]
  /\ returned' = Null
  /\ UNCHANGED <<seq, remote, auth, isOnline, pendingSync, call, runs>>


\* ---------------------------------------------------------------- reads
\* getTransactions as it would be if the list showed confirmed rows only
getTransactionsSynced ==
  LET uid == IF user = Null THEN 0 ELSE user
  IN [i \in {j \in DOMAIN transactions :
               /\ transactions[j].user_id = uid
               /\ transactions[j].sync_status = "synced"} |-> transactions[i]]

\* getTransactions: SELECT * FROM transactions WHERE user_id = ? with
\* `user?.id || 0`; the rows carry no date here, so the ORDER BY is left out
getTransactions ==
  LET uid == IF user = Null THEN 0 ELSE user
  IN [i \in {j \in DOMAIN transactions : transactions[j].user_id = uid}
        |-> transactions[i]]

\* getGoals as it would be without `WHERE user_id = ?`
getGoalsAnyOwner ==
  IF user = Null THEN <<>> ELSE goals

\* getGoals: `if (!db || !user) return []`, then SELECT * FROM goals
\* WHERE user_id = ?
getGoals ==
  IF user = Null THEN <<>>
  ELSE [i \in {j \in DOMAIN goals : goals[j].user_id = user} |-> goals[i]]


\* Array.prototype.reduce((sum, t) => sum + t.amount, 0) over the rows ids
RECURSIVE SumAmounts(_, _)
SumAmounts(table, ids) ==
  IF ids = {} THEN 0
  ELSE LET i == CHOOSE j \in ids : TRUE
       IN table[i].amount + SumAmounts(table, ids \ {i})

\* getGoalProgress as it would be without Math.max(0, ...)
getGoalProgressSigned(month, year) ==
  IF user = Null THEN 0
  ELSE LET rows == {i \in DOMAIN transactions :
                      /\ transactions[i].user_id = user
                      /\ transactions[i].month = month
                      /\ transactions[i].year = year}
           income == SumAmounts(transactions,
                       {i \in rows : transactions[i].type = "income"})
           expenses == SumAmounts(transactions,
                         {i \in rows : transactions[i].type = "expense"})
       IN income - expenses

\* getGoalProgress: the user's rows of the month and year (strftime('%m') and
\* strftime('%Y') of transaction_date), income minus expenses, floored at zero
getGoalProgress(month, year) ==
  IF user = Null THEN 0
  ELSE LET rows == {i \in DOMAIN transactions :
                      /\ transactions[i].user_id = user
                      /\ transactions[i].month = month
                      /\ transactions[i].year = year}
           income == SumAmounts(transactions,
                       {i \in rows : transactions[i].type = "income"})
           expenses == SumAmounts(transactions,
                         {i \in rows : transactions[i].type = "expense"})
       IN IF income - expenses > 0 THEN income - expenses ELSE 0

\* a screen awaits getGoalProgress(month, year)
GoalProgressRead(month, year) ==
  /\ lastResult' = [op |-> "getGoalProgress", status |-> "ok"]
  /\ returned' = getGoalProgress(month, year)
  /\ UNCHANGED <<local, remote, auth, isOnline, pendingSync, call, runs>>


\* ---------------------------------------------------------------- Remote Service
\* The contract of the HTTP API: POST creates and hands out the next id, PUT
\* and DELETE act on an existing record of the caller, GET lists the caller's
\* records.  o is the outcome the service (or the network) chooses:
\*   "ok"        applied and answered 2xx
\*   "conflict"  409 to a POST of a record that already exists, nothing applied
\*   "error"     any other 4xx/5xx or a timeout, nothing applied
\*   "lost"      applied, but the answer never reaches the client
RemoteRecord(u, data) == [user_id |-> u, data |-> data]

Owned(rt, u, id) == id \in DOMAIN rt /\ rt[id].user_id = u

RemotePost(rt, last, u, data, exists, dedup, o) ==
  LET created == rt @@ ((last + 1) :> RemoteRecord(u, data)) IN
  CASE o = "ok" ->
         [enabled |-> last < MaxRemote /\ (dedup => ~exists),
          table |-> created, last |-> last + 1, status |-> "ok", sid |-> last + 1]
    [] o = "lost" ->
         [enabled |-> last < MaxRemote /\ (dedup => ~exists),
          table |-> created, last |-> last + 1, status |-> "error", sid |-> Null]
    [] o = "conflict" ->
         [enabled |-> exists,
          table |-> rt, last |-> last, status |-> "conflict", sid |-> Null]
    [] OTHER ->
         [enabled |-> o = "error",
          table |-> rt, last |-> last, status |-> "error", sid |-> Null]

RemotePut(rt, last, u, id, data, clash, o) ==
  CASE o = "ok" ->
         [enabled |-> Owned(rt, u, id) /\ ~clash,
          table |-> [i \in DOMAIN rt |-> IF i = id THEN RemoteRecord(u, data) ELSE rt[i]],
          last |-> last, status |-> "ok", sid |-> Null]
    [] OTHER ->
         [enabled |-> o = "error",
          table |-> rt, last |-> last, status |-> "error", sid |-> Null]

RemoteDelete(rt, last, u, id, o) ==
  CASE o = "ok" ->
         [enabled |-> Owned(rt, u, id),
          table |-> Without(rt, {id}), last |-> last, status |-> "ok", sid |-> Null]
    [] OTHER ->
         [enabled |-> o = "error",
          table |-> rt, last |-> last, status |-> "error", sid |-> Null]

\* a DELETE of record id followed by a POST of the same payload
RemoteReplace(rt, last, u, id) ==
  [enabled |-> Owned(rt, u, id) /\ last < MaxRemote,
   table |-> IF id \in DOMAIN rt
             THEN Without(rt, {id}) @@ ((last + 1) :> rt[id]) ELSE rt,
   last |-> last + 1, status |-> "ok", sid |-> last + 1]

RECURSIVE Ascending(_)
Ascending(S) ==
  IF S = {} THEN <<>>
  ELSE LET m == CHOOSE x \in S : \A y \in S : x <= y
       IN <<m>> \o Ascending(S \ {m})

\* GET /transactions, GET /goals: the caller's records, each with its id
RemoteList(rt, u) ==
  LET ids == Ascending({i \in DOMAIN rt : rt[i].user_id = u})
  IN [k \in 1..Len(ids) |-> [id |-> ids[k], data |-> rt[ids[k]].data]]

\* a transaction with this payload is already held for the user
ExistsTx(u, data) ==
  \E i \in DOMAIN remoteTx : remoteTx[i].user_id = u /\ remoteTx[i].data = data

\* a goal for this month and year is already held for the user, other than `except`
ExistsGoal(u, data, except) ==
  \E i \in DOMAIN remoteGoals \ {except} :
    /\ remoteGoals[i].user_id = u
    /\ remoteGoals[i].data.target_month = data.target_month
    /\ remoteGoals[i].data.target_year = data.target_year

\* ---------------------------------------------------------------- sync engine
Finish(r) ==
  /\ runs' = [runs EXCEPT ![r] = NoRun]
  /\ pendingSync' = FALSE
  /\ lastResult' = [op |-> "syncData", status |-> "ok"]
  /\ returned' = Null

\* the loop's entry as it would be if syncData went straight to the pull
PushPcNever(queue) == "pull"

PushPc(queue) == IF queue = <<>> THEN "pull" ELSE "push"

PullPc(txs, gls) ==
  IF txs # <<>> THEN "pullTx" ELSE IF gls # <<>> THEN "pullGoal" ELSE "cleanup"

\* syncData as it would be without `!isOnline` in its precondition
syncDataOffline(r) ==
  /\ runs[r].pc = "idle"
  /\ IF ~token \/ user = Null
     THEN /\ lastResult' = [op |-> "syncData", status |-> "Unavailable"]
          /\ returned' = Null
          /\ UNCHANGED <<runs, pendingSync>>
     ELSE /\ pendingSync' = TRUE
          /\ runs' = [runs EXCEPT ![r] =
               [NoRun EXCEPT !.pc = PushPc(sync_queue), !.user = user,
                             !.queue = sync_queue]]
          /\ Quiet
  /\ UNCHANGED <<local, remote, auth, isOnline, call>>

\* syncData: the precondition, setPendingSync(true) and the SELECT of the queue
syncData(r) ==
  /\ runs[r].pc = "idle"
  /\ IF ~isOnline \/ ~token \/ user = Null
     THEN /\ lastResult' = [op |-> "syncData", status |-> "Unavailable"]
          /\ returned' = Null
          /\ UNCHANGED <<runs, pendingSync>>
     ELSE /\ pendingSync' = TRUE
          /\ runs' = [runs EXCEPT ![r] =
               [NoRun EXCEPT !.pc = PushPc(sync_queue), !.user = user,
                             !.queue = sync_queue]]
          /\ Quiet
  /\ UNCHANGED <<local, remote, auth, isOnline, call>>

\* The operation a dispatch performs: the entry's own, or "update" when the
\* 409 handler dispatches the entry again as {...operation, operation: "update"}
Operation(run) ==
  IF run.op = "none" THEN Head(run.queue).operation ELSE run.op

\* `existing?.server_id || operation.record_id` of the update case
UpdateId(table, e, u) ==
  IF e.record_id \in DOMAIN table /\ table[e.record_id].user_id = u
       /\ table[e.record_id].server_id # Null
  THEN table[e.record_id].server_id
  ELSE e.record_id

\* the request is out and answered: sent, applied (the service acted on it)
\* and confirmed (the client got a 2xx) record it for the run, addr is the id
\* in the request's URL (Null for a POST)
Requested(r, e, op, res, acted, addr) ==
  runs' = [runs EXCEPT ![r].pc = "resp", ![r].op = op, ![r].resp = res.status,
                       ![r].addr = addr,
                       ![r].sid = res.sid, ![r].sent = @ \cup {e.id},
                       ![r].applied = IF acted \/ res.status = "ok"
                                      THEN @ \cup {e.id} ELSE @,
                       ![r].confirmed = IF res.status = "ok" THEN @ \cup {e.id} ELSE @]

\* syncTransaction: the request of the switch (axios.post / put / delete)
syncTransaction(r, o) ==
  /\ runs[r].pc = "push"
  /\ Head(runs[r].queue).table_name = "transactions"
  /\ LET e == Head(runs[r].queue)
         u == runs[r].user
         op == Operation(runs[r])
         last == remoteSeq.transactions
         res == CASE op = "create" ->
                       RemotePost(remoteTx, last, u, e.data, ExistsTx(u, e.data), FALSE, o)
                  [] op = "update" ->
                       RemotePut(remoteTx, last, u, UpdateId(transactions, e, u),
                                 e.data, FALSE, o)
                  [] OTHER ->
                       RemoteDelete(remoteTx, last, u, e.data.server_id, o)
     IN /\ res.enabled
        /\ remoteTx' = res.table
        /\ remoteSeq' = [remoteSeq EXCEPT !.transactions = res.last]
        /\ Requested(r, e, op, res, res.table # remoteTx,
                     CASE op = "create" -> Null
                       [] op = "update" -> UpdateId(transactions, e, u)
                       [] OTHER -> e.data.server_id)
  /\ UNCHANGED <<local, remoteGoals, auth, isOnline, pendingSync, call>> /\ Quiet

\* the loop's catch as it would be if it fell through to the DELETE
SkipRemoving(r) ==
  runs' = [runs EXCEPT ![r].pc = "remove", ![r].sid = Null, ![r].addr = Null]

\* the loop's catch as it would be if it rethrew out of the loop
SkipAbort(r) ==
  runs' = [runs EXCEPT ![r].queue = <<>>, ![r].op = "none", ![r].resp = "none",
                       ![r].sid = Null, ![r].addr = Null, ![r].pc = "pull"]

\* the catch of syncData's loop: the entry stays queued, on to the next one
Skip(r) ==
  runs' = [runs EXCEPT ![r].queue = Tail(@), ![r].op = "none", ![r].resp = "none",
                       ![r].sid = Null, ![r].addr = Null,
                       ![r].pc = PushPc(Tail(runs[r].queue))]

Handled(r) ==
  runs' = [runs EXCEPT ![r].pc = "remove", ![r].sid = Null, ![r].addr = Null]

Redispatch(r) ==
  runs' = [runs EXCEPT ![r].pc = "push", ![r].op = "update", ![r].resp = "none",
                       ![r].addr = Null]

\* UPDATE <table> SET server_id = ?, sync_status = 'synced' WHERE id = ?
WriteBack(table, id, sid) ==
  [i \in DOMAIN table |->
     IF i = id THEN [table[i] EXCEPT !.server_id = sid, !.sync_status = "synced"]
     ELSE table[i]]

\* UPDATE <table> SET sync_status = 'synced' WHERE id = ?
MarkSynced(table, id) ==
  [i \in DOMAIN table |->
     IF i = id THEN [table[i] EXCEPT !.sync_status = "synced"] ELSE table[i]]

\* syncTransaction: what follows the answer (write-back, 409 handler, rethrow)
syncTransactionResponse(r) ==
  /\ runs[r].pc = "resp"
  /\ Head(runs[r].queue).table_name = "transactions"
  /\ LET e == Head(runs[r].queue)
         run == runs[r]
     IN CASE run.resp = "ok" /\ run.op = "create" ->
               LET written == WriteBack(transactions, e.record_id, run.sid) IN
               IF TransactionsOk(written)
               THEN transactions' = written /\ Handled(r)
               ELSE UNCHANGED transactions /\ Skip(r)
          [] run.resp = "ok" /\ run.op = "update" ->
               transactions' = MarkSynced(transactions, e.record_id) /\ Handled(r)
          [] run.resp = "ok" /\ run.op = "delete" ->
               UNCHANGED transactions /\ Handled(r)
          [] run.resp = "conflict" /\ run.op = "create" ->
               UNCHANGED transactions /\ Redispatch(r)
          [] OTHER ->
               UNCHANGED transactions /\ Skip(r)
  /\ UNCHANGED <<goals, sync_queue, seq, remote, auth, isOnline, pendingSync,
                 call>> /\ Quiet

\* syncGoal: the request of the switch
syncGoal(r, o) ==
  /\ runs[r].pc = "push"
  /\ Head(runs[r].queue).table_name = "goals"
  /\ LET e == Head(runs[r].queue)
         u == runs[r].user
         op == Operation(runs[r])
         last == remoteSeq.goals
         id == UpdateId(goals, e, u)
         res == CASE op = "create" ->
                       RemotePost(remoteGoals, last, u, e.data,
                                  ExistsGoal(u, e.data, Null), TRUE, o)
                  [] op = "update" ->
                       RemotePut(remoteGoals, last, u, id, e.data,
                                 ExistsGoal(u, e.data, id), o)
                  [] OTHER ->
                       RemoteDelete(remoteGoals, last, u, e.data.server_id, o)
     IN /\ res.enabled
        /\ remoteGoals' = res.table
        /\ remoteSeq' = [remoteSeq EXCEPT !.goals = res.last]
        /\ Requested(r, e, op, res, res.table # remoteGoals,
                     CASE op = "create" -> Null
                       [] op = "update" -> id
                       [] OTHER -> e.data.server_id)
  /\ UNCHANGED <<local, remoteTx, auth, isOnline, pendingSync, call>> /\ Quiet

\* syncGoal: what follows the answer
syncGoalResponse(r) ==
  /\ runs[r].pc = "resp"
  /\ Head(runs[r].queue).table_name = "goals"
  /\ LET e == Head(runs[r].queue)
         run == runs[r]
     IN CASE run.resp = "ok" /\ run.op = "create" ->
               LET written == WriteBack(goals, e.record_id, run.sid) IN
               IF GoalsOk(written)
               THEN goals' = written /\ Handled(r)
               ELSE UNCHANGED goals /\ Skip(r)
          [] run.resp = "ok" /\ run.op = "update" ->
               goals' = MarkSynced(goals, e.record_id) /\ Handled(r)
          [] run.resp = "ok" /\ run.op = "delete" ->
               UNCHANGED goals /\ Handled(r)
          [] run.resp = "conflict" /\ run.op = "create" ->
               UNCHANGED goals /\ Redispatch(r)
          [] OTHER ->
               UNCHANGED goals /\ Skip(r)
  /\ UNCHANGED <<transactions, sync_queue, seq, remote, auth, isOnline,
                 pendingSync, call>> /\ Quiet

\* syncData: DELETE FROM sync_queue WHERE id = ? after the dispatch returned
syncDataRemove(r) ==
  /\ runs[r].pc = "remove"
  /\ sync_queue' = QueueWithout(sync_queue, Head(runs[r].queue).id)
  /\ runs' = [runs EXCEPT ![r].queue = Tail(@), ![r].op = "none",
                          ![r].resp = "none",
                          ![r].pc = PushPc(Tail(runs[r].queue))]
  /\ UNCHANGED <<transactions, goals, seq, remote, auth, isOnline, pendingSync,
                 call>> /\ Quiet

\* pullLatestData: the two GETs; a failed GET is caught and logged, and
\* syncData's finally clears pendingSync
pullLatestData(r, o) ==
  /\ runs[r].pc = "pull"
  /\ IF o = "ok"
     THEN LET txs == RemoteList(remoteTx, runs[r].user)
              gls == RemoteList(remoteGoals, runs[r].user)
          IN /\ runs' = [runs EXCEPT ![r].pc = PullPc(txs, gls),
                           ![r].txs = txs, ![r].gls = gls,
                           ![r].txIds = {txs[k].id : k \in 1..Len(txs)},
                           ![r].goalIds = {gls[k].id : k \in 1..Len(gls)}]
             /\ UNCHANGED <<pendingSync>> /\ Quiet
     ELSE Finish(r)
  /\ UNCHANGED <<local, remote, auth, isOnline, call>>

\* the transaction loop as it would be if its UPDATE set sync_status alone
pullTransactionKeepFields(r) ==
  /\ runs[r].pc = "pullTx"
  /\ LET t == Head(runs[r].txs)
         u == runs[r].user
         existingTransaction ==
           {i \in DOMAIN transactions :
              transactions[i].server_id = t.id /\ transactions[i].user_id = u}
         id == seq.transactions + 1
     IN IF existingTransaction # {}
        THEN /\ transactions' =
                  [i \in DOMAIN transactions |->
                     IF i \in existingTransaction
                     THEN [transactions[i] EXCEPT !.sync_status = "synced"]
                     ELSE transactions[i]]
             /\ UNCHANGED seq
        ELSE /\ RoomTx
             /\ transactions' = transactions @@
                  (id :> [amount |-> t.data.amount, type |-> t.data.type,
                          user_id |-> u, sync_status |-> "synced",
                          server_id |-> t.id])
             /\ seq' = [seq EXCEPT !.transactions = id]
  /\ runs' = [runs EXCEPT ![r].txs = Tail(@),
                          ![r].pc = PullPc(Tail(runs[r].txs), runs[r].gls)]
  /\ UNCHANGED <<goals, sync_queue, remote, auth, isOnline, pendingSync, call>> /\ Quiet

\* pullLatestData: one turn of `for (const transaction of serverTransactions)`
pullTransaction(r) ==
  /\ runs[r].pc = "pullTx"
  /\ LET t == Head(runs[r].txs)
         u == runs[r].user
         existingTransaction ==
           {i \in DOMAIN transactions :
              transactions[i].server_id = t.id /\ transactions[i].user_id = u}
         id == seq.transactions + 1
     IN IF existingTransaction # {}
        THEN /\ transactions' =
                  [i \in DOMAIN transactions |->
                     IF i \in existingTransaction
                     THEN [transactions[i] EXCEPT !.amount = t.data.amount,
                                                  !.type = t.data.type,
                                                  !.sync_status = "synced"]
                     ELSE transactions[i]]
             /\ UNCHANGED seq
        ELSE /\ RoomTx
             /\ transactions' = transactions @@
                  (id :> [amount |-> t.data.amount, type |-> t.data.type,
                          user_id |-> u, sync_status |-> "synced",
                          server_id |-> t.id])
             /\ seq' = [seq EXCEPT !.transactions = id]
  /\ runs' = [runs EXCEPT ![r].txs = Tail(@),
                          ![r].pc = PullPc(Tail(runs[r].txs), runs[r].gls)]
  /\ UNCHANGED <<goals, sync_queue, remote, auth, isOnline, pendingSync, call>> /\ Quiet

\* the goal loop as it would be without the look-up of a never-synced local
\* goal for the same month and year
pullGoalInsert(r) ==
  /\ runs[r].pc = "pullGoal"
  /\ LET g == Head(runs[r].gls)
         u == runs[r].user
         existingGoal ==
           {i \in DOMAIN goals : goals[i].server_id = g.id /\ goals[i].user_id = u}
         existingLocalGoal == {}
         id == seq.goals + 1
         written ==
           IF existingGoal # {}
           THEN [i \in DOMAIN goals |->
                   IF i \in existingGoal
                   THEN GoalRow(g.data, u, "synced", goals[i].server_id)
                   ELSE goals[i]]
           ELSE IF existingLocalGoal # {}
           THEN [i \in DOMAIN goals |->
                   IF i \in existingLocalGoal
                   THEN [goals[i] EXCEPT !.target_amount = g.data.target_amount,
                                         !.server_id = g.id,
                                         !.sync_status = "synced"]
                   ELSE goals[i]]
           ELSE goals @@ (id :> GoalRow(g.data, u, "synced", g.id))
         inserts == existingGoal = {} /\ existingLocalGoal = {}
     IN IF GoalsOk(written)
        THEN /\ inserts => RoomGoal
             /\ goals' = written
             /\ seq' = IF inserts THEN [seq EXCEPT !.goals = id] ELSE seq
             /\ runs' = [runs EXCEPT ![r].gls = Tail(@),
                                     ![r].pc = PullPc(<<>>, Tail(runs[r].gls)),
                                     ![r].wrote = @ \/ written # goals]
             /\ UNCHANGED <<pendingSync>> /\ Quiet
        ELSE /\ Finish(r)
             /\ UNCHANGED <<goals, seq>>
  /\ UNCHANGED <<transactions, sync_queue, remote, auth, isOnline, call>>

\* pullLatestData: one turn of `for (const goal of serverGoals)`; a statement
\* the store rejects throws into the catch, which ends the pull.  `wrote`
\* records that a turn of this loop has changed the table.
pullGoal(r) ==
  /\ runs[r].pc = "pullGoal"
  /\ LET g == Head(runs[r].gls)
         u == runs[r].user
         existingGoal ==
           {i \in DOMAIN goals : goals[i].server_id = g.id /\ goals[i].user_id = u}
         existingLocalGoal ==
           {i \in DOMAIN goals :
              /\ goals[i].user_id = u
              /\ goals[i].target_month = g.data.target_month
              /\ goals[i].target_year = g.data.target_year
              /\ goals[i].server_id = Null}
         id == seq.goals + 1
         written ==
           IF existingGoal # {}
           THEN [i \in DOMAIN goals |->
                   IF i \in existingGoal
                   THEN GoalRow(g.data, u, "synced", goals[i].server_id)
                   ELSE goals[i]]
           ELSE IF existingLocalGoal # {}
           THEN [i \in DOMAIN goals |->
                   IF i \in existingLocalGoal
                   THEN [goals[i] EXCEPT !.target_amount = g.data.target_amount,
                                         !.server_id = g.id,
                                         !.sync_status = "synced"]
                   ELSE goals[i]]
           ELSE goals @@ (id :> GoalRow(g.data, u, "synced", g.id))
         inserts == existingGoal = {} /\ existingLocalGoal = {}
     IN IF GoalsOk(written)
        THEN /\ inserts => RoomGoal
             /\ goals' = written
             /\ seq' = IF inserts THEN [seq EXCEPT !.goals = id] ELSE seq
             /\ runs' = [runs EXCEPT ![r].gls = Tail(@),
                                     ![r].pc = PullPc(<<>>, Tail(runs[r].gls)),
                                     ![r].wrote = @ \/ written # goals]
             /\ UNCHANGED <<pendingSync>> /\ Quiet
        ELSE /\ Finish(r)
             /\ UNCHANGED <<goals, seq>>
  /\ UNCHANGED <<transactions, sync_queue, remote, auth, isOnline, call>>

\* DELETE FROM <table> WHERE sync_status = 'synced' AND user_id = ?
\*   AND server_id NOT IN (ids); a NULL server_id is never NOT IN
Stale(table, u, ids) ==
  {i \in DOMAIN table :
     /\ table[i].sync_status = "synced"
     /\ table[i].user_id = u
     /\ table[i].server_id # Null
     /\ table[i].server_id \notin ids}

\* pullLatestData: the two clean-ups, each under `if (ids.length > 0)`,
\* then syncData's finally
pullCleanup(r) ==
  /\ runs[r].pc = "cleanup"
  /\ transactions' =
       IF runs[r].txIds # {}
       THEN Without(transactions, Stale(transactions, runs[r].user, runs[r].txIds))
       ELSE transactions
  /\ goals' =
       IF runs[r].goalIds # {}
       THEN Without(goals, Stale(goals, runs[r].user, runs[r].goalIds))
       ELSE goals
  /\ Finish(r)
  /\ UNCHANGED <<sync_queue, seq, remote, auth, isOnline, call>>

\* ---------------------------------------------------------------- other sessions
\* Another session of user u changes what the Remote Service holds
otherSessionTransaction(u, id, data, kind) ==
  /\ LET last == remoteSeq.transactions
         res == CASE kind = "create" ->
                       RemotePost(remoteTx, last, u, data, FALSE, FALSE, "ok")
                  [] kind = "update" ->
                       RemotePut(remoteTx, last, u, id, data, FALSE, "ok")
                  [] kind = "delete" ->
                       RemoteDelete(remoteTx, last, u, id, "ok")
                  [] OTHER ->
                       RemoteReplace(remoteTx, last, u, id)
     IN /\ res.enabled
        /\ res.table # remoteTx
        /\ remoteTx' = res.table
        /\ remoteSeq' = [remoteSeq EXCEPT !.transactions = res.last]
  /\ UNCHANGED <<local, remoteGoals, auth, isOnline, pendingSync, call, runs>> /\ Quiet

otherSessionGoal(u, id, data, kind) ==
  /\ LET last == remoteSeq.goals
         res == CASE kind = "create" ->
                       RemotePost(remoteGoals, last, u, data,
                                  ExistsGoal(u, data, Null), TRUE, "ok")
                  [] kind = "update" ->
                       RemotePut(remoteGoals, last, u, id, data,
                                 ExistsGoal(u, data, id), "ok")
                  [] kind = "delete" ->
                       RemoteDelete(remoteGoals, last, u, id, "ok")
                  [] OTHER ->
                       RemoteReplace(remoteGoals, last, u, id)
     IN /\ res.enabled
        /\ res.table # remoteGoals
        /\ remoteGoals' = res.table
        /\ remoteSeq' = [remoteSeq EXCEPT !.goals = res.last]
  /\ UNCHANGED <<local, remoteTx, auth, isOnline, pendingSync, call, runs>> /\ Quiet

\* ---------------------------------------------------------------- specifications
Outcomes == {"ok", "error", "conflict", "lost"}
Kinds == {"create", "update", "delete", "replace"}

\* a signed-in, connected client with an empty store
InitOnline ==
  /\ transactions = <<>>
  /\ goals = <<>>
  /\ sync_queue = <<>>
  /\ seq = [transactions |-> 0, goals |-> 0, sync_queue |-> 0]
  /\ user = 1
  /\ token = TRUE
  /\ isOnline = TRUE
  /\ pendingSync = FALSE
  /\ call = NoCall
  /\ runs = [r \in RunIds |-> NoRun]
  /\ remoteTx = <<>>
  /\ remoteGoals = <<>>
  /\ remoteSeq = [transactions |-> 0, goals |-> 0]
  /\ lastResult = NoResult
  /\ returned = Null

\* what the forms submit: a new record, and the edit of a record
TxInputs == {[amount |-> 1, type |-> "income"]}
TxEdits == {[amount |-> 2, type |-> "expense"]}

GoalInputs ==
  {[target_amount |-> 1, target_month |-> 3, target_year |-> 2024],
   [target_amount |-> 1, target_month |-> 4, target_year |-> 2024]}
GoalEdits ==
  {[target_amount |-> 2, target_month |-> 3, target_year |-> 2024]}

RepoTx ==
  \/ \E d \in TxInputs : addTransaction(d)
  \/ addTransactionQueue
  \/ \E id \in 1..MaxTx, d \in TxEdits : updateTransaction(id, d)
  \/ updateTransactionQueue
  \/ \E id \in 1..MaxTx : deleteTransaction(id)
  \/ deleteTransactionRow
  \/ deleteTransactionQueue

RepoGoal ==
  \/ \E d \in GoalInputs : addGoal(d)
  \/ addGoalQueue
  \/ \E id \in 1..MaxGoal, d \in GoalEdits : updateGoal(id, d)
  \/ updateGoalQueue
  \/ \E id \in 1..MaxGoal : deleteGoal(id)
  \/ deleteGoalRow
  \/ deleteGoalQueue

SyncTx(r) ==
  \/ syncData(r)
  \/ \E o \in Outcomes : syncTransaction(r, o)
  \/ syncTransactionResponse(r)
  \/ syncDataRemove(r)
  \/ \E o \in {"ok", "error"} : pullLatestData(r, o)
  \/ pullTransaction(r)
  \/ pullCleanup(r)

SyncGoal(r) ==
  \/ syncData(r)
  \/ \E o \in {"ok", "error", "conflict"} : syncGoal(r, o)
  \/ syncGoalResponse(r)
  \/ syncDataRemove(r)
  \/ \E o \in {"ok", "error"} : pullLatestData(r, o)
  \/ pullGoal(r)
  \/ pullCleanup(r)

\* transactions, one sync run at a time
NextTx == RepoTx \/ SyncTx(1)
SpecTx == InitOnline /\ [][NextTx]_vars

\* goals, one sync run at a time, other sessions of the user at work
NextGoal ==
  \/ RepoGoal
  \/ SyncGoal(1)
  \/ \E id \in 1..MaxRemote, d \in GoalEdits : otherSessionGoal(1, id, d, "replace")
SpecGoal == InitOnline /\ [][NextGoal]_vars

\* both tables, one sync run at a time, the Remote Service accepts or rejects
SyncAll(r) ==
  \/ syncData(r)
  \/ \E o \in {"ok", "error"} : syncTransaction(r, o)
  \/ syncTransactionResponse(r)
  \/ \E o \in {"ok", "error"} : syncGoal(r, o)
  \/ syncGoalResponse(r)
  \/ syncDataRemove(r)
  \/ \E o \in {"ok", "error"} : pullLatestData(r, o)
  \/ pullTransaction(r)
  \/ pullGoal(r)
  \/ pullCleanup(r)

NextRepo == RepoTx \/ RepoGoal \/ SyncAll(1)
SpecRepo == InitOnline /\ [][NextRepo]_vars

\* the repository alone, the process may die at any await
NextCrash == RepoTx \/ RepoGoal \/ Crash
SpecCrash == InitOnline /\ [][NextCrash]_vars

\* syncData called while a run is in flight
NextConc ==
  \/ \E d \in TxInputs : addTransaction(d)
  \/ addTransactionQueue
  \/ \E r \in RunIds : SyncTx(r)
SpecConc == InitOnline /\ [][NextConc]_vars

\* sign-in, sign-out and connectivity changes around syncData
NextAuth ==
  \/ \E u \in Users : login(u)
  \/ logout
  \/ \E b \in BOOLEAN : setupNetworkListener(b)
  \/ \E d \in TxInputs : addTransaction(d)
  \/ addTransactionQueue
  \/ SyncTx(1)
SpecAuth == Init /\ [][NextAuth]_vars

\* a client that mirrors the records other sessions of the user create and
\* delete, and edits and deletes the rows it holds: every row has carried a
\* remote id since the pull inserted it
NextMirror ==
  \/ \E id \in DOMAIN transactions, d \in TxEdits : updateTransaction(id, d)
  \/ updateTransactionQueue
  \/ \E id \in DOMAIN transactions : deleteTransaction(id)
  \/ deleteTransactionRow
  \/ deleteTransactionQueue
  \/ SyncTx(1)
  \/ \E id \in 1..MaxRemote, d \in TxInputs, kind \in {"create", "delete"} :
       otherSessionTransaction(1, id, d, kind)
SpecMirror == InitOnline /\ [][NextMirror]_vars

\* a client whose two goals were pulled from the Remote Service, after another
\* session has edited the first and deleted and re-created the second; with
\* both ids of the goals table used up, no pull of this client gets as far as
\* the clean-up
InitStale ==
  /\ transactions = <<>>
  /\ goals = <<GoalRow([target_amount |-> 1, target_month |-> 3,
                        target_year |-> 2024], 1, "synced", 1),
               GoalRow([target_amount |-> 1, target_month |-> 4,
                        target_year |-> 2024], 1, "synced", 2)>>
  /\ sync_queue = <<>>
  /\ seq = [transactions |-> 0, goals |-> 2, sync_queue |-> 0]
  /\ user = 1
  /\ token = TRUE
  /\ isOnline = TRUE
  /\ pendingSync = FALSE
  /\ call = NoCall
  /\ runs = [r \in RunIds |-> NoRun]
  /\ remoteTx = <<>>
  /\ remoteGoals =
       (1 :> RemoteRecord(1, [target_amount |-> 2, target_month |-> 3,
                              target_year |-> 2024]))
       @@ (3 :> RemoteRecord(1, [target_amount |-> 1, target_month |-> 4,
                                 target_year |-> 2024]))
  /\ remoteSeq = [transactions |-> 0, goals |-> 3]
  /\ lastResult = NoResult
  /\ returned = Null

NextStale ==
  \/ \E id \in 1..MaxGoal, d \in GoalEdits : updateGoal(id, d)
  \/ updateGoalQueue
  \/ \E id \in 1..MaxGoal : deleteGoal(id)
  \/ deleteGoalRow
  \/ deleteGoalQueue
  \/ syncData(1)
  \/ \E o \in {"ok", "error"} : syncGoal(1, o)
  \/ syncGoalResponse(1)
  \/ syncDataRemove(1)
  \/ \E o \in {"ok", "error"} : pullLatestData(1, o)
  \/ pullGoal(1)
SpecStale == InitStale /\ [][NextStale]_vars

\* the repository used in turn by the users who sign in on one device
NextOwner ==
  \/ \E u \in Users : login(u)
  \/ logout
  \/ RepoTx
  \/ RepoGoal
SpecOwner == Init /\ [][NextOwner]_vars

\* what a caller of the repository can pass besides what the forms submit
TxInvalid == {[amount |-> 0, type |-> "income"], [amount |-> -1, type |-> "expense"]}

\* the repository of transactions called with any amount, no sync
NextInvalid ==
  \/ \E d \in TxInputs \cup TxInvalid : addTransaction(d)
  \/ addTransactionQueue
  \/ \E id \in 1..MaxTx, d \in TxEdits \cup TxInvalid : updateTransaction(id, d)
  \/ updateTransactionQueue
  \/ \E id \in 1..MaxTx : deleteTransaction(id)
  \/ deleteTransactionRow
  \/ deleteTransactionQueue
SpecInvalid == InitOnline /\ [][NextInvalid]_vars


\* transactions, with syncData called again whenever the run before it has
\* ended: a run that has started goes on to its end (each await resolves or
\* rejects), and the screens call syncData after every save and on refresh
SyncDrain(r) ==
  \/ syncData(r)
  \/ \E o \in {"ok", "error"} : syncTransaction(r, o)
  \/ syncTransactionResponse(r)
  \/ syncDataRemove(r)
  \/ \E o \in {"ok", "error"} : pullLatestData(r, o)
  \/ pullTransaction(r)
  \/ pullCleanup(r)
NextDrain ==
  \/ RepoTx
  \/ SyncDrain(1)
  \/ \E b \in BOOLEAN : setupNetworkListener(b)
SpecDrain == InitOnline /\ [][NextDrain]_vars /\ WF_vars(SyncDrain(1))


\* getGoalProgress over every stored set of transactions: rows that carry the
\* month and year of their transaction_date, of either user, and any user or
\* none signed in
Amounts == 1..3
DatedRows ==
  [amount : Amounts, type : {"income", "expense"}, user_id : Users,
   month : Months, year : Years, sync_status : {"pending"}, server_id : {Null}]
InitProgress ==
  /\ \E n \in 0..MaxTx :
       /\ transactions \in [1..n -> DatedRows]
       /\ seq = [transactions |-> n, goals |-> 0, sync_queue |-> 0]
  /\ goals = <<>>
  /\ sync_queue = <<>>
  /\ user \in Users \cup {Null}
  /\ token = (user # Null)
  /\ isOnline = FALSE
  /\ pendingSync = FALSE
  /\ call = NoCall
  /\ runs = [r \in RunIds |-> NoRun]
  /\ remoteTx = <<>>
  /\ remoteGoals = <<>>
  /\ remoteSeq = [transactions |-> 0, goals |-> 0]
  /\ lastResult = NoResult
  /\ returned = Null
NextProgress == \E month \in Months, year \in Years : GoalProgressRead(month, year)
SpecProgress == InitProgress /\ [][NextProgress]_vars


\* the users of one device in turn: sign-in and sign-out around creates of
\* both kinds and sync runs
NextReads ==
  \/ \E u \in Users : login(u)
  \/ logout
  \/ \E d \in TxInputs : addTransaction(d)
  \/ addTransactionQueue
  \/ \E d \in GoalEdits : addGoal(d)
  \/ addGoalQueue
  \/ SyncAll(1)
SpecReads == InitOnline /\ [][NextReads]_vars


\* the users of one device in turn, with the profile screen's "clear data"
NextClear ==
  \/ NextOwner
  \/ clearLocalData
SpecClear == Init /\ [][NextClear]_vars


\* one transaction is created on the client, and sync runs follow whose
\* answers may be lost on the way back
NextRetry ==
  \/ \E d \in TxInputs : seq.transactions = 0 /\ addTransaction(d)
  \/ addTransactionQueue
  \/ SyncTx(1)
SpecRetry == InitOnline /\ [][NextRetry]_vars


\* transactions created and deleted on the client, and sync runs whose every
\* request the Remote Service answers: a row that is still without server_id
\* has not been pushed by any run that has ended
SyncAccepted(r) ==
  \/ syncData(r)
  \/ syncTransaction(r, "ok")
  \/ syncTransactionResponse(r)
  \/ syncDataRemove(r)
  \/ pullLatestData(r, "ok")
  \/ pullTransaction(r)
  \/ pullCleanup(r)
NextUnsent ==
  \/ \E d \in TxInputs : addTransaction(d)
  \/ addTransactionQueue
  \/ \E id \in DOMAIN transactions : deleteTransaction(id)
  \/ deleteTransactionRow
  \/ deleteTransactionQueue
  \/ SyncAccepted(1)
SpecUnsent == InitOnline /\ [][NextUnsent]_vars


\* two users of one device in turn, each signing out only when no repository
\* call of theirs is in flight, with sync runs of whoever is signed in
NextShared ==
  \/ \E u \in Users : login(u)
  \/ Idle /\ logout
  \/ \E b \in BOOLEAN : setupNetworkListener(b)
  \/ \E d \in TxInputs : addTransaction(d)
  \/ addTransactionQueue
  \/ SyncTx(1)
SpecShared == Init /\ [][NextShared]_vars


\* ---------------------------------------------------------------- properties
Entries(q) == {q[k] : k \in 1..Len(q)}

InFlight(r) == runs[r].pc # "idle"

\* the step is one of run r's own
Steps(r) == InFlight(r) /\ runs'[r] # runs[r]

\* the row an entry names, in the table it names
Table(e) == IF e.table_name = "transactions" THEN transactions ELSE goals
RemoteTable(e) == IF e.table_name = "transactions" THEN remoteTx ELSE remoteGoals

\* the queue holds a create or update intent for row id of the table
HasIntent(table_name, id) ==
  \E e \in Entries(sync_queue) :
    /\ e.table_name = table_name
    /\ e.record_id = id
    /\ e.operation \in {"create", "update"}

\* C1 (atomic intent): whenever no repository call is in flight, every row
\* that is still pending has its intent in the sync queue; a crash between the
\* two writes of a call must not leave the row without the intent.
AtomicIntent ==
  Idle =>
    /\ \A i \in DOMAIN transactions :
         transactions[i].sync_status = "pending" => HasIntent("transactions", i)
    /\ \A i \in DOMAIN goals :
         goals[i].sync_status = "pending" => HasIntent("goals", i)

\* C2 (FIFO push order): a run never gets a success answer for an update
\* entry E2 while a create entry E1 of the same record, queued before E2 and
\* attempted in this run, has not been applied by the Remote Service in this run.
FifoPushOrder ==
  \A r \in RunIds :
    (runs[r].pc = "resp" /\ runs[r].resp = "ok"
       /\ Head(runs[r].queue).operation = "update") =>
      LET e2 == Head(runs[r].queue) IN
      ~ \E e1 \in Entries(sync_queue) :
          /\ e1.operation = "create"
          /\ e1.table_name = e2.table_name
          /\ e1.record_id = e2.record_id
          /\ e1.id < e2.id
          /\ e1.id \in runs[r].sent \ runs[r].applied

\* C3 (idempotent create): when a create entry was answered 409 and its
\* dispatch then returned, so that the entry is about to be removed, the local
\* row is synced and carries the id of a record the Remote Service holds.
IdempotentCreate ==
  \A r \in RunIds :
    (runs[r].pc = "remove" /\ Head(runs[r].queue).operation = "create"
       /\ runs[r].op = "update") =>
      LET e == Head(runs[r].queue) IN
      e.record_id \in DOMAIN Table(e) =>
        /\ Table(e)[e.record_id].sync_status = "synced"
        /\ Table(e)[e.record_id].server_id # Null
        /\ Owned(RemoteTable(e), runs[r].user, Table(e)[e.record_id].server_id)

\* the rows of a table that are pending are the same rows, unchanged, afterwards
PendingKept(before, after) ==
  \A i \in DOMAIN before :
    before[i].sync_status = "pending" => (i \in DOMAIN after /\ after[i] = before[i])

\* C4 (pull preserves pending): no step of the pull phase changes or removes a
\* transaction or goal row that is pending.
PullPreservesPending ==
  [][\A r \in RunIds :
       (Steps(r) /\ runs[r].pc \in {"pullTx", "pullGoal", "cleanup"}) =>
         /\ PendingKept(transactions, transactions')
         /\ PendingKept(goals, goals')]_vars

GoalsOf(u, m, y) ==
  {i \in DOMAIN goals :
     goals[i].user_id = u /\ goals[i].target_month = m /\ goals[i].target_year = y}

\* C5 (goal uniqueness): the goals table never holds two rows of one owner for
\* the same month and year; an addGoal goes on to queue its intent only when the
\* pair was free, and an addGoal that fails leaves goals and sync_queue as they were.
GoalUniqueness ==
  /\ [](\A u \in Users, m \in Months, y \in Years : Cardinality(GoalsOf(u, m, y)) <= 1)
  /\ [][/\ (Idle /\ call'.op = "addGoal") =>
              GoalsOf(user, call'.data.target_month, call'.data.target_year) = {}
        /\ (lastResult'.op = "addGoal" /\ lastResult'.status = "error") =>
              (goals' = goals /\ sync_queue' = sync_queue)]_vars

\* an addGoal was just rejected while the store holds a synced and a pending goal
GoalUniquenessWitness ==
  /\ lastResult = [op |-> "addGoal", status |-> "error"]
  /\ \E i \in DOMAIN goals : goals[i].sync_status = "synced"
  /\ \E i \in DOMAIN goals : goals[i].sync_status = "pending"

DeleteOps == {"deleteTransaction", "deleteGoal"}

\* C6 (delete without sync is silent): no step of a deleteTransaction or
\* deleteGoal call that found a null server_id changes sync_queue; its DELETE
\* removes the row and the call then returns normally.
DeleteWithoutSyncSilent ==
  [][LET c == IF call.op \in DeleteOps THEN call ELSE call'
         table == IF c.op = "deleteTransaction" THEN transactions' ELSE goals'
     IN (c.op \in DeleteOps /\ call' # call /\ c.server_id = Null) =>
          /\ sync_queue' = sync_queue
          /\ call.step = 2 => c.id \notin DOMAIN table
          /\ call.step = 3 => lastResult' = [op |-> c.op, status |-> "ok"]]_vars

\* a never-synced goal has just been deleted after a never-synced transaction
\* was: neither left a delete intent
DeleteWithoutSyncSilentWitness ==
  /\ call.op = "deleteGoal" /\ call.step = 3 /\ call.server_id = Null
  /\ call.id \notin DOMAIN goals
  /\ seq.transactions >= 1 /\ 1 \notin DOMAIN transactions
  /\ remoteSeq.transactions = 0
  /\ \A e \in Entries(sync_queue) : e.operation # "delete"

\* C7 (concurrent sync invocations): no queue entry is submitted to the
\* Remote Service by two runs that are in flight together.
NoDoubleSubmission ==
  \A r1, r2 \in RunIds : r1 # r2 => runs[r1].sent \cap runs[r2].sent = {}

\* C8 (sync precondition): a run starts only when the client is online and
\* holds a user and a token; a syncData that throws Unavailable was called
\* without one of them, starts no run (so sends nothing) and leaves the
\* tables, the Remote Service and pendingSync as they were.
SyncPrecondition ==
  [][/\ \A r \in RunIds :
          (~InFlight(r) /\ runs'[r].pc # "idle") =>
            (isOnline /\ token /\ user # Null)
     /\ lastResult' = [op |-> "syncData", status |-> "Unavailable"] =>
          /\ ~isOnline \/ ~token \/ user = Null
          /\ local' = local /\ remote' = remote
          /\ runs' = runs /\ pendingSync' = pendingSync]_vars

\* syncData has just thrown Unavailable with an intent waiting in the queue
SyncPreconditionWitness ==
  /\ lastResult = [op |-> "syncData", status |-> "Unavailable"]
  /\ sync_queue # <<>>
  /\ user # Null /\ ~isOnline

\* C9 (failure isolation): when a request is answered with a rejection (not a
\* create conflict), the catch leaves sync_queue and the rows as they are, the
\* run goes on with the entries after it, and nothing is thrown to the caller;
\* a run reaches the pull only with no entry left, and it ends by returning.
FailureIsolation ==
  /\ [](\A r \in RunIds :
          runs[r].pc \in {"pull", "pullTx", "pullGoal", "cleanup"} =>
            runs[r].queue = <<>>)
  /\ [][\A r \in RunIds :
          /\ (Steps(r) /\ runs[r].pc = "resp" /\ runs[r].resp = "error") =>
               /\ sync_queue' = sync_queue
               /\ transactions' = transactions /\ goals' = goals
               /\ runs'[r].queue = Tail(runs[r].queue)
               /\ runs'[r].pc = IF Tail(runs[r].queue) = <<>> THEN "pull" ELSE "push"
               /\ lastResult' = NoResult
          /\ (InFlight(r) /\ runs'[r].pc = "idle") =>
               lastResult' = [op |-> "syncData", status |-> "ok"]]_vars

\* after a rejected entry, still queued, the run is at the next entry
FailureIsolationWitness ==
  \E r \in RunIds :
    /\ runs[r].pc = "push"
    /\ \E e \in Entries(sync_queue) :
         e.id \in runs[r].sent \ runs[r].confirmed /\ e.id < Head(runs[r].queue).id

\* C10 (confirmed removal): whenever a step of a sync run changes sync_queue,
\* it removes exactly the entry the run is working on, and the Remote Service
\* has answered that entry's create, update or delete with success in this run.
ConfirmedRemoval ==
  [][\A r \in RunIds :
       (Steps(r) /\ sync_queue' # sync_queue) =>
         LET e == Head(runs[r].queue) IN
         /\ e.id \in runs[r].confirmed
         /\ sync_queue' = QueueWithout(sync_queue, e.id)]_vars

\* a run is about to remove an entry that another entry follows in the queue
ConfirmedRemovalWitness ==
  \E r \in RunIds :
    /\ runs[r].pc = "remove"
    /\ Len(sync_queue) >= 2
    /\ Head(runs[r].queue) \in Entries(sync_queue)

UpdateOps == {"updateTransaction", "updateGoal"}

\* the rows of the signed-in user in the table a repository call works on
OwnRows(op) ==
  LET table == IF op \in {"updateTransaction", "deleteTransaction"}
               THEN transactions ELSE goals
  IN {i \in DOMAIN table : table[i].user_id = user}

\* C11 (NotFound on update): updateTransaction and updateGoal go past their
\* first statement only for a row that exists and belongs to the caller; for
\* any other id they throw NotFound, and then no row and no queue entry changes.
UpdateNotFound ==
  [][/\ (Idle /\ call'.op \in UpdateOps) => call'.id \in OwnRows(call'.op)
     /\ (lastResult'.op \in UpdateOps /\ lastResult'.status = "NotFound") =>
          local' = local]_vars

\* C12 (NotFound on delete): from rest, deleteTransaction and deleteGoal either
\* go on with a row that exists and belongs to the caller, or throw (NotFound
\* when a user is signed in) and leave the tables and the sync queue unchanged.
DeleteNotFound ==
  [][/\ (Idle /\ call'.op \in DeleteOps) => call'.id \in OwnRows(call'.op)
     /\ (Idle /\ lastResult'.op \in DeleteOps) =>
          /\ lastResult'.status = IF user = Null THEN "error" ELSE "NotFound"
          /\ local' = local
          /\ call' = NoCall]_vars

\* deleteTransaction has just thrown NotFound to a user who owns no
\* transaction, while the table holds a row of another user
DeleteNotFoundWitness ==
  /\ lastResult = [op |-> "deleteTransaction", status |-> "NotFound"]
  /\ user # Null
  /\ transactions # <<>>
  /\ \A i \in DOMAIN transactions : transactions[i].user_id # user

\* the rows of user u that are synced under a remote id outside ids
Orphans(table, u, ids) ==
  {i \in DOMAIN table :
     /\ table[i].user_id = u
     /\ table[i].sync_status = "synced"
     /\ table[i].server_id # Null
     /\ table[i].server_id \notin ids}

\* C13 (pull cleanup): when a pull ends after its clean-up, no row of the
\* run's user is left synced under a remote id that the fetched list of its
\* table does not hold, whatever that list is, the empty list included.
PullCleanup ==
  [][\A r \in RunIds :
       (runs[r].pc = "cleanup" /\ runs'[r].pc = "idle") =>
         /\ Orphans(transactions', runs[r].user, runs[r].txIds) = {}
         /\ Orphans(goals', runs[r].user, runs[r].goalIds) = {}]_vars

\* C14 (pull failure throws): a syncData call returns normally only from the
\* end of its pull; a pull that a failed fetch or a failed write has ended
\* makes the call throw.
PullFailureThrows ==
  [][\A r \in RunIds :
       (InFlight(r) /\ runs'[r].pc = "idle"
          /\ lastResult' = [op |-> "syncData", status |-> "ok"]) =>
         runs[r].pc = "cleanup"]_vars

\* C15 (pull is all-or-nothing per entity type): when a write of the goal
\* loop fails and ends the pull, no earlier turn of that loop has changed the
\* goals table, so the goals are as they were when the pull started.
PullAllOrNothing ==
  [][\A r \in RunIds :
       (runs[r].pc = "pullGoal" /\ runs'[r].pc = "idle") => ~runs[r].wrote]_vars

\* the rows of user u that carry remote id sid
RowsOf(table, u, sid) ==
  {i \in DOMAIN table : table[i].user_id = u /\ table[i].server_id = sid}

\* every row outside `rows` is in both tables, and the same in both
SameBut(before, after, rows) ==
  /\ DOMAIN before \ rows = DOMAIN after \ rows
  /\ \A i \in DOMAIN after \ rows : after[i] = before[i]

\* C16 (pull reconciliation): the turn of the pull for a fetched record leaves
\* exactly one row of the run's user with that remote id, synced and with the
\* fields of the remote version, and changes no other row; the clean-up that
\* ends a successful pull keeps every row whose remote id was fetched.
PullReconciliation ==
  [][\A r \in RunIds :
       /\ (runs[r].pc = "pullTx" /\ Steps(r)) =>
            LET t == Head(runs[r].txs)
                rows == RowsOf(transactions', runs[r].user, t.id)
            IN /\ Cardinality(rows) = 1
               /\ \A i \in rows :
                    /\ transactions'[i].sync_status = "synced"
                    /\ transactions'[i].amount = t.data.amount
                    /\ transactions'[i].type = t.data.type
               /\ SameBut(transactions, transactions', rows)
       /\ (runs[r].pc = "pullGoal" /\ Steps(r) /\ runs'[r].pc # "idle") =>
            LET g == Head(runs[r].gls)
                rows == RowsOf(goals', runs[r].user, g.id)
            IN /\ Cardinality(rows) = 1
               /\ \A i \in rows :
                    goals'[i] = GoalRow(g.data, runs[r].user, "synced", g.id)
               /\ SameBut(goals, goals', rows)
       /\ (runs[r].pc = "cleanup" /\ Steps(r)) =>
            /\ \A sid \in runs[r].txIds :
                 \A i \in RowsOf(transactions, runs[r].user, sid) :
                   i \in DOMAIN transactions' /\ transactions'[i] = transactions[i]
            /\ \A sid \in runs[r].goalIds :
                 \A i \in RowsOf(goals, runs[r].user, sid) :
                   i \in DOMAIN goals' /\ goals'[i] = goals[i]]_vars

\* a pull is at its clean-up after it has overwritten a locally edited
\* transaction, whose update intent is still queued, with the remote version
PullReconciliationWitness ==
  /\ runs[1].pc = "cleanup"
  /\ runs[1].txIds # {}
  /\ \E e \in Entries(sync_queue) :
       /\ e.table_name = "transactions" /\ e.operation = "update"
       /\ e.record_id \in DOMAIN transactions
       /\ transactions[e.record_id].sync_status = "synced"
       /\ transactions[e.record_id].server_id \in runs[1].txIds
       /\ transactions[e.record_id].amount # e.data.amount

\* the goals of user u for one month and year in a goals table
GoalsIn(table, u, m, y) ==
  {i \in DOMAIN table :
     table[i].user_id = u /\ table[i].target_month = m /\ table[i].target_year = y}

\* C17 (goal attach on pull): when the fetched goal matches no row by remote id
\* and the run's user has a never-synced goal for its month and year, the turn
\* inserts no row, writes the remote id onto that goal and marks it synced, and
\* the month still has exactly one goal.
GoalAttach ==
  [][\A r \in RunIds :
       (runs[r].pc = "pullGoal" /\ Steps(r)) =>
         LET g == Head(runs[r].gls)
             u == runs[r].user
             m == g.data.target_month
             y == g.data.target_year
             neverSynced == {i \in GoalsIn(goals, u, m, y) : goals[i].server_id = Null}
         IN (RowsOf(goals, u, g.id) = {} /\ neverSynced # {}) =>
              /\ DOMAIN goals' = DOMAIN goals
              /\ \A i \in neverSynced :
                   goals'[i].server_id = g.id /\ goals'[i].sync_status = "synced"
              /\ Cardinality(GoalsIn(goals', u, m, y)) = 1]_vars

\* a pull is at its clean-up after it has attached a fetched goal to a local
\* goal whose create intent is still queued
GoalAttachWitness ==
  /\ runs[1].pc = "cleanup"
  /\ \E e \in Entries(sync_queue) :
       /\ e.table_name = "goals" /\ e.operation = "create"
       /\ e.record_id \in DOMAIN goals
       /\ goals[e.record_id].sync_status = "synced"
       /\ goals[e.record_id].server_id \in runs[1].goalIds

\* C18 (create push write-back): the step that follows a 2xx answer to the
\* POST of a create entry writes the answer's id onto the row the entry names,
\* marks it synced, changes no other row, and hands the entry to the DELETE
\* FROM sync_queue.
CreateWriteBack ==
  [][\A r \in RunIds :
       (runs[r].pc = "resp" /\ Steps(r) /\ runs[r].resp = "ok"
          /\ runs[r].op = "create") =>
         LET e == Head(runs[r].queue)
             tx == e.table_name = "transactions"
             before == IF tx THEN transactions ELSE goals
             after == IF tx THEN transactions' ELSE goals'
         IN /\ runs'[r].pc = "remove"
            /\ e.record_id \in DOMAIN before =>
                 /\ after[e.record_id].server_id = runs[r].sid
                 /\ after[e.record_id].sync_status = "synced"
            /\ SameBut(before, after, {e.record_id})
            /\ IF tx THEN goals' = goals ELSE transactions' = transactions]_vars

\* the remote ids the client holds for the record an entry names: on the
\* record's row, or in a queued delete intent of the record
KnownRemoteIds(u, e) ==
  LET table == Table(e) IN
  {table[i].server_id :
     i \in {j \in DOMAIN table :
              j = e.record_id /\ table[j].user_id = u /\ table[j].server_id # Null}}
  \cup
  {d.data.server_id :
     d \in {x \in Entries(sync_queue) :
              /\ x.table_name = e.table_name
              /\ x.record_id = e.record_id
              /\ x.operation = "delete"}}

\* C19 (edit of a synced record): the UPDATE of updateTransaction / updateGoal
\* makes the row pending and keeps its remote id, and the call queues exactly
\* one update intent with the payload it was given; a sync run addresses the
\* PUT of an update intent to the remote id of the intent's record, and
\* pushing it leaves the remote id of every row as it was.
EditOfSynced ==
  [][/\ (Idle /\ call'.op \in UpdateOps /\ call'.id \in OwnRows(call'.op)) =>
          LET tx == call'.op = "updateTransaction"
              before == IF tx THEN transactions ELSE goals
              after == IF tx THEN transactions' ELSE goals'
          IN /\ after[call'.id].sync_status = "pending"
             /\ after[call'.id].server_id = before[call'.id].server_id
     /\ (call.op \in UpdateOps /\ call' = NoCall) =>
          sync_queue' =
            Append(sync_queue,
                   QueueEntry(seq.sync_queue + 1,
                              IF call.op = "updateTransaction"
                              THEN "transactions" ELSE "goals",
                              call.id, "update", call.data))
     /\ \A r \in RunIds :
          (Steps(r) /\ runs[r].pc \in {"push", "resp"}
             /\ Head(runs[r].queue).operation = "update") =>
            LET e == Head(runs[r].queue)
                tx == e.table_name = "transactions"
                before == IF tx THEN transactions ELSE goals
                after == IF tx THEN transactions' ELSE goals'
                known == KnownRemoteIds(runs[r].user, e)
            IN /\ (runs[r].pc = "push" /\ known # {}) => runs'[r].addr \in known
               /\ DOMAIN after = DOMAIN before
               /\ \A i \in DOMAIN before : after[i].server_id = before[i].server_id]_vars

\* C20 (delete of a synced record): for a row that has a remote id, the DELETE
\* of deleteTransaction / deleteGoal removes the row before anything is
\* queued, and the call then queues exactly one delete intent carrying that
\* remote id; a sync run addresses the DELETE request of a delete intent to the
\* id it carries, a 2xx answer means the record is gone from the Remote
\* Service, and the run then removes that entry from the queue.
DeleteOfSynced ==
  [][/\ (call.op \in DeleteOps /\ call' # call /\ call.server_id # Null) =>
          LET tx == call.op = "deleteTransaction" IN
          /\ call.step = 2 =>
               /\ call.id \notin DOMAIN (IF tx THEN transactions' ELSE goals')
               /\ sync_queue' = sync_queue
          /\ call.step = 3 =>
               sync_queue' =
                 Append(sync_queue,
                        QueueEntry(seq.sync_queue + 1,
                                   IF tx THEN "transactions" ELSE "goals",
                                   call.id, "delete",
                                   [server_id |-> call.server_id]))
     /\ \A r \in RunIds :
          (Steps(r) /\ runs[r].pc \in {"push", "resp", "remove"}
             /\ Head(runs[r].queue).operation = "delete") =>
            LET e == Head(runs[r].queue)
                held == IF e.table_name = "transactions"
                        THEN remoteTx' ELSE remoteGoals'
            IN /\ runs[r].pc = "push" =>
                    /\ runs'[r].addr = e.data.server_id
                    /\ runs'[r].resp = "ok" => e.data.server_id \notin DOMAIN held
               /\ (runs[r].pc = "resp" /\ runs[r].resp = "ok") =>
                    runs'[r].pc = "remove"
               /\ runs[r].pc = "remove" =>
                    sync_queue' = QueueWithout(sync_queue, e.id)]_vars

\* a run is about to remove a delete intent whose record the Remote Service
\* no longer holds
DeleteOfSyncedWitness ==
  /\ runs[1].pc = "remove"
  /\ Head(runs[1].queue).operation = "delete"
  /\ Head(runs[1].queue) \in Entries(sync_queue)
  /\ Head(runs[1].queue).data.server_id \notin DOMAIN RemoteTable(Head(runs[1].queue))

AddOps == {"addTransaction", "addGoal"}

\* C21 (create): the first step of a successful addTransaction or addGoal
\* inserts exactly one row, owned by the signed-in user, pending and with a
\* null server_id, and leaves every other row and the queue as they were; its
\* second step appends exactly one create intent whose record_id is the new
\* row's id and returns that id; the call sends nothing to the Remote Service,
\* and the list read by the same user right after the return holds the row.
CreateContract ==
  [][LET c == IF call.op \in AddOps THEN call ELSE call'
         tx == c.op = "addTransaction"
         table == IF tx THEN transactions ELSE goals
         tableNext == IF tx THEN transactions' ELSE goals'
         list == IF tx THEN getTransactions' ELSE getGoals'
     IN (c.op \in AddOps /\ call' # call) =>
          /\ UNCHANGED remote
          /\ IF tx THEN goals' = goals ELSE transactions' = transactions
          /\ Idle =>
               /\ user # Null
               /\ c.id \notin DOMAIN table
               /\ DOMAIN tableNext = DOMAIN table \cup {c.id}
               /\ \A i \in DOMAIN table : tableNext[i] = table[i]
               /\ tableNext[c.id].user_id = user
               /\ tableNext[c.id].sync_status = "pending"
               /\ tableNext[c.id].server_id = Null
               /\ sync_queue' = sync_queue
          /\ ~Idle =>
               /\ tableNext = table
               /\ Len(sync_queue') = Len(sync_queue) + 1
               /\ SubSeq(sync_queue', 1, Len(sync_queue)) = sync_queue
               /\ LET e == sync_queue'[Len(sync_queue')]
                  IN /\ e.operation = "create"
                     /\ e.record_id = c.id
                     /\ e.table_name = IF tx THEN "transactions" ELSE "goals"
               /\ lastResult' = [op |-> c.op, status |-> "ok"]
               /\ returned' = c.id
               /\ user' = c.user => c.id \in DOMAIN list]_vars

\* addGoal has just returned the id of the row it inserted, the device has
\* never been online, and the goal is in the list next to a transaction that
\* was created the same way
CreateContractWitness ==
  /\ lastResult = [op |-> "addGoal", status |-> "ok"]
  /\ returned \in DOMAIN getGoals
  /\ getGoals[returned].sync_status = "pending"
  /\ getTransactions # <<>>
  /\ ~isOnline
  /\ \E k \in 1..Len(sync_queue) :
       /\ sync_queue[k].operation = "create"
       /\ sync_queue[k].table_name = "goals"
       /\ sync_queue[k].record_id = returned

\* C22 (validation): a create or update of a transaction whose amount is not
\* positive writes nothing, so every row of table transactions has an amount
\* above zero and no queued create or update of a transaction carries another.
ValidatedAmounts ==
  /\ \A i \in DOMAIN transactions : transactions[i].amount > 0
  /\ \A e \in Entries(sync_queue) :
       (e.table_name = "transactions" /\ e.operation \in {"create", "update"})
         => e.data.amount > 0

\* no request of a run in flight has been refused
Accepting == \A r \in RunIds : runs[r].resp \in {"none", "ok"}

\* C23 (eventual drain): a run takes the whole queue when it starts, so with
\* the entries a failed push left in it; inside a run an entry is requested
\* once (the 409 handler's second dispatch apart); and if from some point on
\* the client is connected and signed in and no request is refused, then
\* repeated runs, each of which ends, empty the queue for good.
EventualDrain ==
  /\ [][\A r \in RunIds :
          /\ (runs[r].pc = "idle" /\ runs'[r].pc # "idle") =>
               runs'[r].queue = sync_queue
          /\ (Steps(r) /\ runs[r].pc = "push" /\ runs[r].op = "none") =>
               Head(runs[r].queue).id \notin runs[r].sent
          /\ (Steps(r) /\ runs[r].pc = "resp" /\ runs'[r].pc # "remove") =>
               sync_queue' = sync_queue]_vars
  /\ (/\ <>[](isOnline /\ token /\ user # Null /\ Accepting)
      /\ []<>(\A r \in RunIds : runs[r].pc = "idle"))
       => <>[](sync_queue = <<>>)

\* the second intent was confirmed and removed by an earlier run that left the
\* first one queued; this run has had the first one confirmed and is about to
\* remove it, which empties the queue
EventualDrainWitness ==
  /\ runs[1].pc = "remove"
  /\ seq.sync_queue >= 2
  /\ Len(sync_queue) = 1
  /\ sync_queue[1].id = 1
  /\ runs[1].queue = sync_queue

\* the user's amounts of one month, income counted positive and expense negative
RECURSIVE SignedSum(_, _, _)
SignedSum(ids, month, year) ==
  IF ids = {} THEN 0
  ELSE LET i == CHOOSE j \in ids : TRUE
           t == transactions[i]
           signed == IF t.user_id # user \/ t.month # month \/ t.year # year THEN 0
                     ELSE IF t.type = "income" THEN t.amount ELSE 0 - t.amount
       IN signed + SignedSum(ids \ {i}, month, year)

\* C24 (goal progress floor): for every month and year and every stored set of
\* transactions, getGoalProgress is the sum of the caller's income amounts
\* minus the sum of the caller's expense amounts of that month when that is
\* positive and 0 otherwise, and what a call returns is never negative.
GoalProgressFloor ==
  /\ \A month \in Months, year \in Years :
       LET net == SignedSum(DOMAIN transactions, month, year)
       IN /\ getGoalProgress(month, year) >= 0
          /\ net >= 0 => getGoalProgress(month, year) = net
          /\ net < 0 => getGoalProgress(month, year) = 0
  /\ lastResult.op = "getGoalProgress" => returned >= 0

\* the signed-in user's expenses exceed their income in every month, and
\* getGoalProgress has just returned 0
GoalProgressFloorWitness ==
  /\ lastResult.op = "getGoalProgress"
  /\ returned = 0
  /\ user # Null
  /\ \A month \in Months : SignedSum(DOMAIN transactions, month, 2024) < 0

\* C25 (owner-scoped reads): getTransactions and getGoals hold only rows whose
\* user_id is the signed-in user's and are empty when nobody is signed in; no
\* step changes the user_id of a row, so a row of one user never enters the
\* results of another.
OwnerScopedReads ==
  [][/\ \A i \in DOMAIN getTransactions' : getTransactions'[i].user_id = user'
     /\ \A i \in DOMAIN getGoals' : getGoals'[i].user_id = user'
     /\ user' = Null => getTransactions' = <<>> /\ getGoals' = <<>>
     /\ \A i \in DOMAIN transactions \cap DOMAIN transactions' :
          transactions'[i].user_id = transactions[i].user_id
     /\ \A i \in DOMAIN goals \cap DOMAIN goals' :
          goals'[i].user_id = goals[i].user_id]_vars

\* both users have a transaction and a goal in the store, one of them is
\* signed in and reads a proper part of each table
OwnerScopedReadsWitness ==
  /\ user # Null
  /\ getTransactions # <<>> /\ DOMAIN getTransactions # DOMAIN transactions
  /\ getGoals # <<>> /\ DOMAIN getGoals # DOMAIN goals
  /\ \E i \in DOMAIN transactions : transactions[i].sync_status = "synced"

\* C26 (clear local data): clearLocalData called by a signed-in user leaves no
\* transaction and no goal of that user and no queue entry, and leaves the
\* rows of every other user as they were.
ClearLocalDataScope ==
  [][(lastResult'.op = "clearLocalData" /\ user # Null) =>
       /\ \A i \in DOMAIN transactions' : transactions'[i].user_id # user
       /\ \A i \in DOMAIN goals' : goals'[i].user_id # user
       /\ sync_queue' = <<>>
       /\ \A i \in DOMAIN transactions :
            transactions[i].user_id # user =>
              i \in DOMAIN transactions' /\ transactions'[i] = transactions[i]
       /\ \A i \in DOMAIN goals :
            goals[i].user_id # user =>
              i \in DOMAIN goals' /\ goals'[i] = goals[i]]_vars

\* C27 (no duplicate from a retried create): when the one transaction created
\* on the client has been pushed, also with a create that the Remote Service
\* applied and whose answer was lost, every run that has ended leaves at most
\* one local transaction row and at most one record on the Remote Service.
RetriedCreateNoDuplicate ==
  (\A r \in RunIds : runs[r].pc = "idle") =>
    /\ Cardinality(DOMAIN transactions) <= 1
    /\ Cardinality(DOMAIN remoteTx) <= 1

\* C28 (create then delete before sync): a record that was created and then
\* deleted on the client before any run had pushed it is never sent: no run
\* requests the create of a record whose row is no longer in the table, so
\* the Remote Service never holds it and no pull can bring it back.
CreatedThenDeletedUnsent ==
  [][\A r \in RunIds :
       (Steps(r) /\ runs[r].pc = "push"
          /\ Head(runs[r].queue).operation = "create") =>
         Head(runs[r].queue).record_id \in DOMAIN transactions]_vars

\* C29 (no resurrection while the delete is queued): when a run's push of a
\* delete intent was refused, so that the intent is still in sync_queue, no
\* turn of that run's pull leaves in table transactions a row of the user with
\* the remote id the intent carries.
DeleteStaysDeleted ==
  [][\A r \in RunIds :
       (Steps(r) /\ runs[r].pc = "pullTx") =>
         \A e \in Entries(sync_queue) :
           (e.table_name = "transactions" /\ e.operation = "delete"
              /\ e.id \in runs[r].sent) =>
             \A i \in DOMAIN transactions' :
               transactions'[i].user_id = runs[r].user =>
                 transactions'[i].server_id # e.data.server_id]_vars

\* C30 (synced rows carry a remote id): every transaction and every goal whose
\* sync_status is synced has a server_id, also after the push of an update for
\* a row whose create was never confirmed and after the 409 fallback of a
\* create.
SyncedHasRemoteId ==
  /\ \A i \in DOMAIN transactions :
       transactions[i].sync_status = "synced" => transactions[i].server_id # Null
  /\ \A i \in DOMAIN goals :
       goals[i].sync_status = "synced" => goals[i].server_id # Null

\* C31 (queued means pending): a row for which sync_queue holds a create or
\* update intent that no run in flight has had confirmed is pending, whatever
\* the push of an earlier intent for the row, the pull or an edit made during
\* a run has done.
QueuedMeansPending ==
  \A e \in Entries(sync_queue) :
    (/\ e.operation \in {"create", "update"}
     /\ e.record_id \in DOMAIN Table(e)
     /\ \A r \in RunIds : e.id \notin runs[r].confirmed) =>
      Table(e)[e.record_id].sync_status = "pending"

\* C32 (sync is scoped to the signed-in user): a run requests only intents of
\* rows that belong to the user it runs for, and what follows the answer
\* (the write-back of server_id and of synced) changes only rows of that user.
SyncOwnerScope ==
  [][\A r \in RunIds :
       /\ (Steps(r) /\ runs[r].pc = "push") =>
            LET e == Head(runs[r].queue) IN
            e.record_id \in DOMAIN Table(e) =>
              Table(e)[e.record_id].user_id = runs[r].user
       /\ (Steps(r) /\ runs[r].pc = "resp") =>
            /\ \A i \in DOMAIN transactions :
                 transactions'[i] # transactions[i] =>
                   transactions[i].user_id = runs[r].user
            /\ \A i \in DOMAIN goals :
                 goals'[i] # goals[i] => goals[i].user_id = runs[r].user]_vars

\* C33 (pendingSync): pendingSync is true exactly while at least one syncData
\* run is in flight: true from the start of a run that passed the precondition
\* on, false once no run is left, and never false while a run still pushes or
\* pulls.
PendingSyncFlag ==
  pendingSync <=> (\E r \in RunIds : runs[r].pc # "idle")

====
